---- MODULE Spec2Model ----
(***************************************************************************)
(* golms: backend lifecycle supervisor (pkg/server), the connect command   *)
(* (cmd/root.go) and the chat session driver (pkg/client).                 *)
(*                                                                         *)
(* The operating system is part of the state: the process table, which     *)
(* processes carry the mlx_lm.server signature, which of them were         *)
(* launched by this program and which hold a listening socket.  Processes  *)
(* started outside the program appear, bind a port and exit on their own.  *)
(***************************************************************************)
EXTENDS Integers, Sequences, FiniteSets, TLC

(* ------------------------------ bounds --------------------------------- *)
MaxPid == 2          \* process identifiers 1..MaxPid
MaxTurns == 2        \* chat turns of a stand-alone chat session
MaxConnectTurns == 1 \* chat turns of a session opened by connect

(* ------------------------- program constants --------------------------- *)
DefaultPort == 8080  \* m.port = 8080
PollBudget == 30     \* for i := 0; i < 30; i++
DefaultMaxTokens == 512

PIDs == 1..MaxPid
Ports == {DefaultPort, DefaultPort + 1}

VARIABLES
  mode,       \* which entry point drives the run: "api", "connect", "chat"
  pc,         \* position of the single thread of control
  port,       \* MlxLMServerManager.port
  procs,      \* OS process table
  installed,  \* python3 -c "import mlx_lm" succeeds
  modelPath,  \* ~/golms/mlx_lm/<llm> exists
  i,          \* loop counter of the readiness wait in Start
  child,      \* cmd.Process.Pid of the process the latest Start launched, 0 = none
  ret,        \* last operation returned: [op, err, val]
  foreignKilled, \* history: this program sent kill -9 to a process it did not launch
  probed,     \* history: a readiness poll succeeded since port was recorded
  running0,   \* connect: result of the IsRunning() check before Start
  deferStop,  \* connect: defer modelServerManager.Stop() is registered
  connErr,    \* connect: error returned by connectHandler
  found,      \* history: what discovery had to find when the handler ran, [servers, llms]
  clientPort, \* MlxLMClient.port
  chatOptions,\* MlxLMClient.chatOptions
  Messages,   \* ChatRequest.Messages
  turns,      \* history: chat turns completed successfully
  requests,   \* history: HTTP requests issued in this session
  chatErr,    \* error returned by StartChat: [kind, status, body]
  lineRead,   \* addUserMessage: what ReadString returned, [ok, line]
  sent,       \* history: the payloads POSTed in this session, in order
  resp,       \* the HTTP response to the latest request
  displayed,  \* the assistant text printed last
  slept,      \* history: intervals the current Start has slept
  snapshot    \* what the latest IsRunning() call of the API saw: [ok, listing, cmd]

hvars == <<port, procs, installed, modelPath, i, child, ret, foreignKilled, probed, slept, snapshot>>
cvars == <<running0, deferStop, connErr, found>>
chvars == <<clientPort, chatOptions, Messages, turns, requests, chatErr, lineRead, sent, resp, displayed>>
vars == <<mode, pc, hvars, cvars, chvars>>

(* --------------------------- process table ----------------------------- *)
\* st: "absent" | "up";  sig: command line contains mlx_lm.server;
\* own: launched by this program's Start;  lport: listening TCP port, 0 = none
Absent == [st |-> "absent", sig |-> FALSE, own |-> FALSE, lport |-> 0]

Up(ps, p) == ps[p].st = "up"

PortFree(ps, q) == \A p \in PIDs : ~(Up(ps, p) /\ ps[p].lport = q)

Min(S) == CHOOSE x \in S : \A y \in S : x <= y

\* pgrep python lists the python processes in pid order; ps -p <pid> gives the
\* command line; the first one containing mlx_lm.server wins.
Matching(ps) == {p \in PIDs : Up(ps, p) /\ ps[p].sig}

\* the lines of pgrep's output: the pids of S in ascending order
RECURSIVE Ascending(_)
Ascending(S) == IF S = {} THEN <<>> ELSE <<Min(S)>> \o Ascending(S \ {Min(S)})

\* ps -p <pid> -o command= seen by IsRunning: "gone" (ps fails, the process
\* has terminated), "sig" (the command line contains mlx_lm.server), "other"
CommandLines(ps) ==
  [p \in PIDs |-> IF ~Up(ps, p) THEN "gone" ELSE IF ps[p].sig THEN "sig" ELSE "other"]

NotFound == [running |-> FALSE, pid |-> -1]

\* variant: the scan keeps going and reports the last match
RECURSIVE LastMatch(_, _)
LastMatch(listing, cmd) ==
  IF listing = <<>> THEN NotFound
  ELSE IF cmd[listing[Len(listing)]] = "sig"
         THEN [running |-> TRUE, pid |-> listing[Len(listing)]]
  ELSE LastMatch(SubSeq(listing, 1, Len(listing) - 1), cmd)
\* the loop over the listing: skip what ps cannot show, stop at the first
\* command line that contains the signature
RECURSIVE FirstMatch(_, _)
FirstMatch(listing, cmd) ==
  IF listing = <<>> THEN NotFound
  ELSE IF cmd[Head(listing)] = "sig" THEN [running |-> TRUE, pid |-> Head(listing)]
  ELSE FirstMatch(Tail(listing), cmd)

\* IsRunning on what it observes: whether pgrep succeeded, its listing, and
\* what ps showed for each listed pid
IsRunningOn(ok, listing, cmd) == IF ~ok THEN NotFound ELSE FirstMatch(listing, cmd)

\* IsRunning on a process table that does not change while it runs
IsRunning(ps) ==
  IsRunningOn(TRUE, Ascending({p \in PIDs : Up(ps, p)}), CommandLines(ps))

\* lsof -Pan -p <pid> -i prints something iff the process holds a socket
LsofHasOutput(ps, p) == Up(ps, p) /\ ps[p].lport # 0

IsAvailable == installed

\* GetPort: NotRunning unless running; the recorded port when there is one;
\* otherwise the first listening port of the discovered process.
\* variant: the sockets of the process are inspected whatever is recorded
getPortHelperInspects(ps, recorded) ==
  LET r == IsRunning(ps) IN
  IF ~r.running THEN [err |-> "NotRunning", val |-> 0, lsof |-> FALSE]
  ELSE IF LsofHasOutput(ps, r.pid) THEN [err |-> "nil", val |-> ps[r.pid].lport, lsof |-> TRUE]
  ELSE IF recorded # 0 THEN [err |-> "nil", val |-> recorded, lsof |-> TRUE]
  ELSE [err |-> "PortNotFound", val |-> 0, lsof |-> TRUE]
getPortHelper(ps, recorded) ==
  LET r == IsRunning(ps) IN
  IF ~r.running THEN [err |-> "NotRunning", val |-> 0, lsof |-> FALSE]
  ELSE IF recorded # 0 THEN [err |-> "nil", val |-> recorded, lsof |-> FALSE]
  ELSE IF LsofHasOutput(ps, r.pid) THEN [err |-> "nil", val |-> ps[r.pid].lport, lsof |-> TRUE]
  ELSE [err |-> "PortNotFound", val |-> 0, lsof |-> TRUE]

NoRet == [op |-> "none", err |-> "nil", val |-> 0, lsof |-> FALSE]
Return(op, err, val) == ret' = [op |-> op, err |-> err, val |-> val, lsof |-> FALSE]

\* where the thread of control is when an operation of the handle may begin
\* and where it goes when the operation returns.  A caller of the bare API
\* sees the result at "returned" and goes back to "idle" to make its next call.
AtCall(at) == pc = IF mode = "api" THEN "idle" ELSE at
After(next) == IF mode = "api" THEN "returned" ELSE next

(* ----------------------------- environment ----------------------------- *)
\* a process started outside this program appears
ExtSpawn ==
  /\ pc # "returned"
  /\ \E p \in PIDs, s \in BOOLEAN :
       /\ ~Up(procs, p)
       /\ procs' = [procs EXCEPT ![p] = [st |-> "up", sig |-> s, own |-> FALSE, lport |-> 0]]
  /\ UNCHANGED <<mode, pc, port, installed, modelPath, i, slept, snapshot, child, ret, foreignKilled, probed, cvars, chvars>>

\* a backend process finishes loading and binds its port: the port this
\* program passed on the command line, or any free port for a foreign one
ProcListen ==
  /\ pc # "returned"
  /\ \E p \in PIDs, q \in Ports :
       /\ Up(procs, p) /\ procs[p].sig /\ procs[p].lport = 0
       /\ procs[p].own => q = DefaultPort
       /\ PortFree(procs, q)
       /\ procs' = [procs EXCEPT ![p].lport = q]
  /\ UNCHANGED <<mode, pc, port, installed, modelPath, i, slept, snapshot, child, ret, foreignKilled, probed, cvars, chvars>>

\* a process exits or crashes on its own
ProcExit ==
  /\ pc # "returned"
  /\ \E p \in PIDs :
       /\ Up(procs, p)
       /\ procs' = [procs EXCEPT ![p] = Absent]
  /\ UNCHANGED <<mode, pc, port, installed, modelPath, i, slept, snapshot, child, ret, foreignKilled, probed, cvars, chvars>>

\* the operator removes the model directory ~/golms/mlx_lm/<llm>
ModelRemoved ==
  /\ mode = "api" /\ pc # "returned"
  /\ modelPath
  /\ modelPath' = FALSE
  /\ UNCHANGED <<mode, pc, port, procs, installed, i, slept, snapshot, child, ret, foreignKilled, probed, cvars, chvars>>

(* ------------------------- handle operations --------------------------- *)
\* variant: the fresh handle already records the default port
NewServerManagerWithPort ==
  /\ mode = "api" /\ pc = "idle"
  /\ port' = DefaultPort
  /\ probed' = FALSE
  /\ Return("New", "nil", 0)
  /\ pc' = "returned"
  /\ UNCHANGED <<mode, procs, installed, modelPath, i, slept, snapshot, child, foreignKilled, cvars, chvars>>
\* NewServerManager: a fresh handle, port 0
NewServerManager ==
  /\ mode = "api" /\ pc = "idle"
  /\ port' = 0
  /\ probed' = FALSE
  /\ Return("New", "nil", 0)
  /\ pc' = "returned"
  /\ UNCHANGED <<mode, procs, installed, modelPath, i, slept, snapshot, child, foreignKilled, cvars, chvars>>

CallIsAvailable ==
  /\ mode = "api" /\ pc = "idle"
  /\ Return("IsAvailable", "nil", IF IsAvailable THEN 1 ELSE 0)
  /\ pc' = "returned"
  /\ UNCHANGED <<mode, port, procs, installed, modelPath, i, slept, snapshot, child, foreignKilled, probed, cvars, chvars>>

NoSnapshot == [ok |-> TRUE, listing |-> <<>>, cmd |-> [p \in PIDs |-> "gone"]]

\* IsRunning() called through the API: pgrep may fail, and processes of its
\* listing may terminate before ps looks at them
CallIsRunning ==
  /\ mode = "api" /\ pc = "idle"
  /\ \/ /\ snapshot' = [NoSnapshot EXCEPT !.ok = FALSE]
        /\ UNCHANGED procs
     \/ \E gone \in SUBSET {p \in PIDs : Up(procs, p)} :
          /\ procs' = [p \in PIDs |-> IF p \in gone THEN Absent ELSE procs[p]]
          /\ snapshot' = [ok |-> TRUE,
                          listing |-> Ascending({p \in PIDs : Up(procs, p)}),
                          cmd |-> CommandLines(procs')]
  /\ Return("IsRunning", "nil", IsRunningOn(snapshot'.ok, snapshot'.listing, snapshot'.cmd).pid)
  /\ pc' = "returned"
  /\ UNCHANGED <<mode, port, installed, modelPath, i, slept, child, foreignKilled, probed, cvars, chvars>>

\* variant: a recorded port is returned without asking the helper
GetPortOfRecord(at, next) ==
  /\ AtCall(at)
  /\ LET r == IF port # 0 THEN [err |-> "nil", val |-> port, lsof |-> FALSE]
             ELSE getPortHelper(procs, port)
     IN ret' = [op |-> "GetPort", err |-> r.err, val |-> r.val, lsof |-> r.lsof]
  /\ pc' = After(next)
  /\ UNCHANGED <<mode, port, procs, installed, modelPath, i, slept, snapshot, child, foreignKilled, probed, cvars, chvars>>
GetPort(at, next) ==
  /\ AtCall(at)
  /\ LET r == getPortHelper(procs, port)
     IN ret' = [op |-> "GetPort", err |-> r.err, val |-> r.val, lsof |-> r.lsof]
  /\ pc' = After(next)
  /\ UNCHANGED <<mode, port, procs, installed, modelPath, i, slept, snapshot, child, foreignKilled, probed, cvars, chvars>>

\* Start, up to the launch: the failure returns
StartFail(at, next) ==
  /\ AtCall(at)
  /\ \/ /\ Return("Start", "HomeDir", 0)
        /\ UNCHANGED port
     \/ /\ ~modelPath
        /\ Return("Start", "ModelPathMissing", 0)
        /\ UNCHANGED port
     \/ /\ modelPath
        /\ Return("Start", "LogFile", 0)
        /\ UNCHANGED port
     \/ /\ modelPath
        /\ port' = DefaultPort
        /\ Return("Start", "LaunchFailed", 0)
  /\ probed' = (probed /\ ret'.err # "LaunchFailed")
  /\ pc' = After(next)
  /\ UNCHANGED <<mode, procs, installed, modelPath, i, slept, snapshot, child, foreignKilled, cvars, chvars>>

\* variant: the launch goes ahead without the model path check
StartLaunchUnchecked(at) ==
  /\ AtCall(at)
  /\ port' = DefaultPort
  /\ probed' = FALSE
  /\ \E p \in PIDs :
       /\ ~Up(procs, p)
       /\ procs' = [procs EXCEPT ![p] = [st |-> "up", sig |-> TRUE, own |-> TRUE, lport |-> 0]]
       /\ child' = p
  /\ i' = 0
  /\ slept' = 0
  /\ pc' = "polling"
  /\ UNCHANGED <<mode, snapshot, installed, modelPath, ret, foreignKilled, cvars, chvars>>
\* Start: port recorded, cmd.Start() succeeded, the wait loop is entered
StartLaunch(at) ==
  /\ AtCall(at)
  /\ modelPath
  /\ port' = DefaultPort
  /\ probed' = FALSE
  /\ \E p \in PIDs :
       /\ ~Up(procs, p)
       /\ procs' = [procs EXCEPT ![p] = [st |-> "up", sig |-> TRUE, own |-> TRUE, lport |-> 0]]
       /\ child' = p
  /\ i' = 0
  /\ slept' = 0
  /\ pc' = "polling"
  /\ UNCHANGED <<mode, snapshot, installed, modelPath, ret, foreignKilled, cvars, chvars>>

\* one iteration of the wait loop, after its one-second sleep
\* variant: a matching process counts as ready, socket or not
PollReadyWithoutSocket(ps) ==
  LET r == IsRunning(ps) IN r.running
PollReady(ps) ==
  LET r == IsRunning(ps) IN r.running /\ LsofHasOutput(ps, r.pid)

StartPollReady(next) ==
  /\ pc = "polling"
  /\ slept' = slept + 1
  /\ PollReady(procs)
  /\ probed' = TRUE
  /\ Return("Start", "nil", i + 1)
  /\ i' = 0
  /\ pc' = After(next)
  /\ UNCHANGED <<mode, snapshot, port, procs, installed, modelPath, child, foreignKilled, cvars, chvars>>

\* variant: the loop goes round without sleeping
StartPollAgainNoSleep ==
  /\ pc = "polling"
  /\ ~PollReady(procs)
  /\ i + 1 < PollBudget
  /\ i' = i + 1
  /\ UNCHANGED <<mode, pc, port, procs, installed, modelPath, child, ret, foreignKilled, probed, slept, snapshot, cvars, chvars>>
StartPollAgain ==
  /\ pc = "polling"
  /\ slept' = slept + 1
  /\ ~PollReady(procs)
  /\ i + 1 < PollBudget
  /\ i' = i + 1
  /\ UNCHANGED <<mode, snapshot, pc, port, procs, installed, modelPath, child, ret, foreignKilled, probed, cvars, chvars>>

\* variant: after the last poll the wait starts over
StartGiveUpRetries(next) ==
  /\ pc = "polling"
  /\ slept' = slept
  /\ ~PollReady(procs)
  /\ i + 1 >= PollBudget
  /\ i' = 0
  /\ UNCHANGED <<mode, snapshot, pc, port, procs, installed, modelPath, child, ret, foreignKilled, probed, cvars, chvars>>
\* the last poll fails too: the loop ends, a warning is printed, return nil
StartGiveUp(next) ==
  /\ pc = "polling"
  /\ slept' = slept + 1
  /\ ~PollReady(procs)
  /\ i + 1 >= PollBudget
  /\ Return("Start", "nil", i + 1)
  /\ i' = 0
  /\ pc' = After(next)
  /\ UNCHANGED <<mode, snapshot, port, procs, installed, modelPath, child, foreignKilled, probed, cvars, chvars>>

\* variant: every process that shows the signature is killed
KillAllMatching(ps, pid) == [p \in PIDs |-> IF Up(ps, p) /\ ps[p].sig THEN Absent ELSE ps[p]]
\* kill -9 <pid> that takes effect
Kill(ps, pid) == [ps EXCEPT ![pid] = Absent]

\* Stop with the port reset moved in front of the running check
StopResetsPortFirst(at, next) ==
  /\ AtCall(at)
  /\ port' = 0
  /\ LET r == IsRunning(procs) IN
       \/ /\ ~r.running
          /\ Return("Stop", "NotRunning", 0)
          /\ UNCHANGED <<procs, foreignKilled, probed>>
       \/ /\ r.running
          /\ procs' = Kill(procs, r.pid)
          /\ foreignKilled' = (foreignKilled \/ ~procs[r.pid].own)
          /\ probed' = FALSE
          /\ Return("Stop", "nil", r.pid)
  /\ pc' = After(next)
  /\ UNCHANGED <<mode, installed, modelPath, i, slept, snapshot, child, cvars, chvars>>

\* Stop: not running -> error; kill -9 <pid>; on success reset the port
Stop(at, next) ==
  /\ AtCall(at)
  /\ LET r == IsRunning(procs) IN
       \/ /\ ~r.running
          /\ Return("Stop", "NotRunning", 0)
          /\ UNCHANGED <<port, procs, foreignKilled, probed>>
       \/ /\ r.running
          /\ procs' = Kill(procs, r.pid)
          /\ foreignKilled' = (foreignKilled \/ ~procs[r.pid].own)
          /\ port' = 0
          /\ probed' = FALSE
          /\ Return("Stop", "nil", r.pid)
       \/ \* kill fails: not permitted on a foreign process, or the process
          \* is gone by the time kill runs
          /\ r.running
          /\ \/ ~procs[r.pid].own /\ UNCHANGED procs
             \/ procs' = Kill(procs, r.pid)
          /\ Return("Stop", "KillFailed", r.pid)
          /\ UNCHANGED <<port, foreignKilled, probed>>
  /\ pc' = After(next)
  /\ UNCHANGED <<mode, installed, modelPath, i, slept, snapshot, child, cvars, chvars>>

(* --------------------------- chat session ------------------------------ *)
\* A line typed by the operator is a sequence of symbols: a blank, a word,
\* the reserved token /exit, or a byte that is not valid UTF-8 (ReadString
\* hands over the bytes of standard input as they are).
\* (connect's session is driven with two of them.)
InvalidByte == "0xFF"

Lines ==
  IF mode = "connect" THEN { <<"hi">>, <<"/exit">> }
  ELSE { <<>>, <<" ">>, <<"hi">>, <<" ", "hi", " ">>, <<"hi", " ", "hi">>,
         <<"/exit">>, <<" ", "/exit">>, <<"/exit", " ">>, <<"/exit", "hi">>,
         <<"hi", InvalidByte>> }

\* strings.TrimSpace
RECURSIVE TrimLeft(_)
TrimLeft(l) == IF l # <<>> /\ Head(l) = " " THEN TrimLeft(Tail(l)) ELSE l

RECURSIVE TrimRight(_)
TrimRight(l) ==
  IF l # <<>> /\ l[Len(l)] = " " THEN TrimRight(SubSeq(l, 1, Len(l) - 1)) ELSE l

TrimSpace(l) == TrimRight(TrimLeft(l))

ExitToken == <<"/exit">>

Message(role, content, toolCalls) ==
  [Role |-> role, Content |-> content, ToolCalls |-> toolCalls]

\* choices[0].message of a decoded 200 reply: whatever the backend sent
Replies ==
  { Message("assistant", <<"hi">>, "nil"),
    Message("assistant", <<"<think>", "hi", "</think>", "hi">>, "nil"),
    Message("user", <<"hi">>, "nil"),
    Message("assistant", <<>>, "calls") }

\* what the operator types at the three option prompts, and what
\* setChatOptions makes of it
\* (a session opened by connect is driven with the defaults: the operator
\* presses enter three times)
TemperatureInputs == IF mode = "connect" THEN {""} ELSE {"", "abc", "1.50", "2.5", "-1", "NaN"}
MaxTokensInputs == IF mode = "connect" THEN {""} ELSE {"", "abc", "7", "0"}
StreamInputs == IF mode = "connect" THEN {""} ELSE {"", "y", "yes", "n"}

\* strconv.ParseFloat on the inputs above: a syntax error, NaN, or a value,
\* kept in hundredths
ParseFloat(in) ==
  CASE in = "0.70" -> [err |-> FALSE, nan |-> FALSE, v |-> 70]
    [] in = "1.50" -> [err |-> FALSE, nan |-> FALSE, v |-> 150]
    [] in = "2.5" -> [err |-> FALSE, nan |-> FALSE, v |-> 250]
    [] in = "-1" -> [err |-> FALSE, nan |-> FALSE, v |-> -100]
    [] in = "NaN" -> [err |-> FALSE, nan |-> TRUE, v |-> 0]
    [] OTHER -> [err |-> TRUE, nan |-> FALSE, v |-> 0]

\* float64 comparison: every comparison with NaN is false
FloatLess(f, n) == ~f.nan /\ f.v < n
FloatGreater(f, n) == ~f.nan /\ f.v > n

DefaultTemperature == "0.70"

\* the accepted text stands for the float64 it parses to
ParseTemperature(in) ==
  IF in = "" THEN DefaultTemperature
  ELSE LET temp == ParseFloat(in) IN
       IF temp.err \/ FloatLess(temp, 0) \/ FloatGreater(temp, 200)
         THEN DefaultTemperature
         ELSE in

\* strconv.Atoi on the inputs above
Atoi(in) ==
  CASE in = "7" -> [err |-> FALSE, v |-> 7]
    [] in = "0" -> [err |-> FALSE, v |-> 0]
    [] OTHER -> [err |-> TRUE, v |-> 0]

ParseMaxTokens(in) ==
  IF in = "" THEN DefaultMaxTokens
  ELSE LET tokens == Atoi(in) IN
       IF tokens.err \/ tokens.v < 1 THEN DefaultMaxTokens ELSE tokens.v

ParseStream(in) == in \in {"y", "yes"}

TurnBound == IF mode = "connect" THEN MaxConnectTurns ELSE MaxTurns

\* errors of the chat driver; an API error carries the status and the body
ChatError(kind, status, body) == [kind |-> kind, status |-> status, body |-> body]
NoError == ChatError("none", 0, "")
Failure(kind) == ChatError(kind, 0, "")

NoInput == [ok |-> FALSE, line |-> <<>>]

\* HTTP responses of the backend.  status 0: no response (connection refused);
\* body "garbage": not the JSON of a ChatResponse; choices: length of the
\* decoded choices list; msg: choices[0].message
NoMessage == Message("", <<>>, "nil")
Response(status, body, choices, msg) ==
  [status |-> status, body |-> body, choices |-> choices, msg |-> msg]
NoResponse == Response(0, "", 0, NoMessage)

StatusOK == 200
ErrorStatuses == IF mode = "connect" THEN {500} ELSE {201, 500}
ErrorBodies == IF mode = "connect" THEN {"overloaded"} ELSE {"", "overloaded"}

Responses ==
  {NoResponse}
    \cup {Response(st, b, 0, NoMessage) : st \in ErrorStatuses, b \in ErrorBodies}
    \cup {Response(StatusOK, "garbage", 0, NoMessage), Response(StatusOK, "json", 0, NoMessage)}
    \cup {Response(StatusOK, "json", 1, m) : m \in Replies}

\* utils.RemoveThinkTags: drop every <think> ... </think> section
RECURSIVE DropThroughClose(_)
DropThroughClose(c) ==
  IF c = <<>> THEN <<>>
  ELSE IF Head(c) = "</think>" THEN Tail(c)
  ELSE DropThroughClose(Tail(c))

HasClose(c) == \E k \in 1..Len(c) : c[k] = "</think>"

RECURSIVE RemoveThinkTags(_)
RemoveThinkTags(c) ==
  IF c = <<>> THEN <<>>
  ELSE IF Head(c) = "<think>" /\ HasClose(Tail(c))
         THEN RemoveThinkTags(DropThroughClose(Tail(c)))
  ELSE <<Head(c)>> \o RemoveThinkTags(Tail(c))

\* variant: a request that failed in transport is sent again
ChatEndRetries(err) ==
  /\ chatErr' = err
  /\ pc' = IF err.kind \in {"SendFailed", "DecodeFailed"} THEN "ch_send"
           ELSE IF mode = "connect" THEN "c_chatDone" ELSE "ch_done"
ChatEnd(err) ==
  /\ chatErr' = err
  /\ pc' = IF mode = "connect" THEN "c_chatDone" ELSE "ch_done"

\* StartChat: setChatOptions and the initial, empty ChatRequest
setChatOptions ==
  /\ pc = "ch_options"
  /\ \E t \in TemperatureInputs, k \in MaxTokensInputs, st \in StreamInputs :
       chatOptions' = [Temperature |-> ParseTemperature(t),
                       MaxTokens |-> ParseMaxTokens(k),
                       Stream |-> ParseStream(st)]
  /\ Messages' = <<>>
  /\ pc' = "ch_read"
  /\ UNCHANGED <<mode, hvars, cvars, clientPort, turns, requests, chatErr, lineRead, sent, resp, displayed>>

\* if userInput == "/exit"
\* variant: the exit command is not recognised
IsExitNever(userInput) == FALSE
IsExit(userInput) == userInput = ExitToken

\* req.Messages = append(req.Messages, *userMessage)
\* the new user turn put in front of the transcript
PrependUser(msgs, userInput) == <<Message("user", userInput, "nil")>> \o msgs
AppendUser(msgs, userInput) == Append(msgs, Message("user", userInput, "nil"))

\* addUserMessage and the branch StartChat takes on its result
addUserMessage ==
  /\ pc = "ch_read"
  /\ \/ \* ReadString fails (end of input)
        /\ lineRead' = NoInput
        /\ ChatEnd(Failure("ReadFailed"))
        /\ UNCHANGED Messages
     \/ \E line \in Lines :
          LET userInput == TrimSpace(line) IN
          /\ lineRead' = [ok |-> TRUE, line |-> line]
          /\ IF IsExit(userInput)
               THEN /\ ChatEnd(Failure("nil"))
                    /\ UNCHANGED Messages
               ELSE /\ turns < TurnBound
                    /\ Messages' = AppendUser(Messages, userInput)
                    /\ pc' = "ch_send"
                    /\ UNCHANGED chatErr
  /\ UNCHANGED <<mode, hvars, cvars, clientPort, chatOptions, turns, requests, sent, resp, displayed>>

\* encoding/json on a Go string, symbol by symbol: <, > and & are written as
\* \u escapes, a byte that is not valid UTF-8 is replaced by U+FFFD
ReplacementChar == "U+FFFD"

MarshalSymbol(c) ==
  CASE c = "<think>" -> "\\u003cthink\\u003e"
    [] c = "</think>" -> "\\u003c/think\\u003e"
    [] c = InvalidByte -> "\\ufffd"
    [] OTHER -> c

UnmarshalSymbol(w) ==
  CASE w = "\\u003cthink\\u003e" -> "<think>"
    [] w = "\\u003c/think\\u003e" -> "</think>"
    [] w = "\\ufffd" -> ReplacementChar
    [] OTHER -> w

MarshalString(str) == [k \in 1..Len(str) |-> MarshalSymbol(str[k])]
UnmarshalString(w) == [k \in 1..Len(w) |-> UnmarshalSymbol(w[k])]

\* a Message on the wire: {"role": ..., "content": ..., "tool_calls": ...};
\* a nil ToolCalls is written as null
MarshalMessage(m) ==
  [role |-> m.Role,
   content |-> MarshalString(m.Content),
   tool_calls |-> IF m.ToolCalls = "nil" THEN "null" ELSE m.ToolCalls]

UnmarshalMessage(j) ==
  Message(j.role, UnmarshalString(j.content),
          IF j.tool_calls = "null" THEN "nil" ELSE j.tool_calls)

\* payload, err := json.Marshal(req): the request as held by the driver and
\* its messages as they are written on the wire
Payload(msgs, opts) ==
  [Messages |-> msgs, Temperature |-> opts.Temperature,
   MaxTokens |-> opts.MaxTokens, Stream |-> opts.Stream,
   Wire |-> [k \in 1..Len(msgs) |-> MarshalMessage(msgs[k])]]

\* req.Messages = append(req.Messages, chatResp.Choices[0].Message)
\* variant: the reply is stored with the text that is displayed
AppendReplyCleaned(msgs, m) == Append(msgs, [m EXCEPT !.Content = RemoveThinkTags(@)])
AppendReply(msgs, m) == Append(msgs, m)

\* variant: StartChat returns once a turn is complete
AfterTurnReturns == IF mode = "connect" THEN "c_chatDone" ELSE "ch_done"
\* the end of the body of for { ... }: back to addUserMessage
AfterTurn == "ch_read"

\* what sendChatReq returns for a response that is not a usable reply
\* variant: the API error names the status and drops the body
ReplyErrorWithoutBody(r) ==
  IF r.status = 0 THEN Failure("SendFailed")
  ELSE IF r.status # StatusOK THEN ChatError("APIError", r.status, "")
  ELSE IF r.body = "garbage" THEN Failure("DecodeFailed")
  ELSE IF r.choices = 0 THEN Failure("panic")
  ELSE NoError
ReplyError(r) ==
  IF r.status = 0 THEN Failure("SendFailed")
  ELSE IF r.status # StatusOK THEN ChatError("APIError", r.status, r.body)
  ELSE IF r.body = "garbage" THEN Failure("DecodeFailed")
  ELSE IF r.choices = 0 THEN Failure("panic")
  ELSE NoError

\* sendChatReq and the rest of the loop body
\* variant: the message of a failed response is appended all the same
sendChatReqKeepsPartial ==
  /\ pc = "ch_send"
  /\ lineRead' = NoInput
  /\ \/ /\ chatOptions.Temperature = "NaN"
        /\ ChatEnd(Failure("MarshalFailed"))
        /\ UNCHANGED <<Messages, turns, requests, sent, resp, displayed>>
     \/ /\ chatOptions.Temperature # "NaN"
        /\ requests' = requests + 1
        /\ sent' = Append(sent, Payload(Messages, chatOptions))
        /\ \E r \in Responses :
             /\ resp' = r
             /\ Messages' = AppendReply(Messages, r.msg)
             /\ IF ReplyError(r) # NoError
                  THEN /\ ChatEnd(ReplyError(r))
                       /\ UNCHANGED <<turns, displayed>>
                  ELSE /\ turns' = turns + 1
                       /\ displayed' = RemoveThinkTags(r.msg.Content)
                       /\ pc' = "ch_read"
                       /\ UNCHANGED chatErr
  /\ UNCHANGED <<mode, hvars, cvars, clientPort, chatOptions>>
sendChatReq ==
  /\ pc = "ch_send"
  /\ lineRead' = NoInput
  /\ \/ \* json.Marshal rejects a NaN temperature: no request is made
        /\ chatOptions.Temperature = "NaN"
        /\ ChatEnd(Failure("MarshalFailed"))
        /\ UNCHANGED <<Messages, turns, requests, sent, resp, displayed>>
     \/ /\ chatOptions.Temperature # "NaN"
        /\ requests' = requests + 1
        /\ sent' = Append(sent, Payload(Messages, chatOptions))
        /\ \E r \in Responses :
             /\ resp' = r
             /\ IF ReplyError(r) # NoError
                  THEN \* an error, or the panic of Choices[0] on an empty list
                       /\ ChatEnd(ReplyError(r))
                       /\ UNCHANGED <<Messages, turns, displayed>>
                  ELSE /\ Messages' = AppendReply(Messages, r.msg)
                       /\ turns' = turns + 1
                       /\ displayed' = RemoveThinkTags(r.msg.Content)
                       /\ pc' = AfterTurn
                       /\ UNCHANGED chatErr
  /\ UNCHANGED <<mode, hvars, cvars, clientPort, chatOptions>>

(* ------------------- specification: the handle's API ------------------- *)
\* no handler has run discovery yet
NotDiscovered == [servers |-> <<>>, llms |-> "none"]
NoOptions == [Temperature |-> DefaultTemperature, MaxTokens |-> DefaultMaxTokens, Stream |-> FALSE]

InitCommon ==
  /\ port = 0
  /\ procs \in [PIDs -> {Absent}]
  /\ installed \in BOOLEAN
  /\ modelPath \in BOOLEAN
  /\ i = 0
  /\ child = 0
  /\ ret = NoRet
  /\ foreignKilled = FALSE
  /\ slept = 0
  /\ snapshot = NoSnapshot
  /\ probed = FALSE
  /\ running0 = FALSE
  /\ deferStop = FALSE
  /\ connErr = "none"
  /\ found = NotDiscovered
  /\ clientPort = 0
  /\ chatOptions = NoOptions
  /\ Messages = <<>>
  /\ turns = 0
  /\ requests = 0
  /\ chatErr = NoError
  /\ lineRead = NoInput
  /\ sent = <<>>
  /\ resp = NoResponse
  /\ displayed = <<>>

Init ==
  /\ mode = "api"
  /\ pc = "idle"
  /\ InitCommon

\* the caller of the bare API takes the result and is free to call again
Resume ==
  /\ mode = "api" /\ pc = "returned"
  /\ pc' = "idle"
  /\ ret' = NoRet
  /\ child' = 0
  /\ slept' = 0
  /\ snapshot' = NoSnapshot
  /\ UNCHANGED <<mode, port, procs, installed, modelPath, i, foreignKilled, probed, cvars, chvars>>

ApiGetPort == GetPort("idle", "idle")
ApiStartFail == StartFail("idle", "idle")
ApiStartLaunch == StartLaunch("idle")
ApiStartPollReady == StartPollReady("idle")
ApiStartGiveUp == StartGiveUp("idle")
ApiStop == Stop("idle", "idle")

Next ==
  \/ ExtSpawn
  \/ ProcListen
  \/ ProcExit
  \/ ModelRemoved
  \/ NewServerManager
  \/ CallIsAvailable
  \/ CallIsRunning
  \/ ApiGetPort
  \/ ApiStartFail
  \/ ApiStartLaunch
  \/ ApiStartPollReady
  \/ StartPollAgain
  \/ ApiStartGiveUp
  \/ ApiStop
  \/ Resume

Spec == Init /\ [][Next]_vars

\* the thread that runs Start is never suspended for good: the sleep of an
\* iteration ends and its check is made
StartPoll == ApiStartPollReady \/ StartPollAgain \/ ApiStartGiveUp

\* Start called again and again while the processes it launched load, bind
\* their port late or never, or crash
NextStart ==
  \/ ProcListen
  \/ ProcExit
  \/ ApiStartFail
  \/ ApiStartLaunch
  \/ ApiStartPollReady
  \/ StartPollAgain
  \/ ApiStartGiveUp
  \/ Resume

SpecLive == Init /\ [][NextStart]_vars /\ WF_vars(StartPoll)

(* ------------------ specification: golms connect ---------------------- *)
\* connectHandler up to the creation of the manager: discovery of the model
\* servers and models, and the operator's two selections
ListAllModelServers(ollamaBin) ==
  (IF ollamaBin THEN <<"ollama">> ELSE <<>>) \o (IF installed THEN <<"mlx_lm">> ELSE <<>>)

ConnectReturn(err) ==
  /\ connErr' = err
  /\ pc' = "c_return"

connectSelect ==
  /\ mode = "connect" /\ pc = "c_begin"
  /\ \E ollamaBin \in BOOLEAN, input \in {"0", "1", "x"},
        llms \in {"ReadDirFailed", "NoDirs", "NoSubdir", "NoLLMs", "ok"},
        input2 \in {"0", "7", "x"} :
       LET list == ListAllModelServers(ollamaBin)
           idx == IF input = "0" THEN 1 ELSE 2
       IN
       /\ found' = [servers |-> list, llms |-> llms]
       /\ IF list = <<>> THEN ConnectReturn("NoModelServers") /\ UNCHANGED ret
          ELSE IF input = "x" THEN ConnectReturn("Atoi") /\ UNCHANGED ret
          ELSE IF idx > Len(list) THEN ConnectReturn("InvalidInput") /\ UNCHANGED ret
          ELSE IF llms # "ok" THEN ConnectReturn(llms) /\ UNCHANGED ret
          ELSE IF input2 = "x" THEN ConnectReturn("Atoi") /\ UNCHANGED ret
          ELSE IF input2 # "0" THEN ConnectReturn("InvalidInput") /\ UNCHANGED ret
          ELSE /\ ret' = [op |-> "Select", err |-> "nil", lsof |-> FALSE,
                            val |-> IF list[idx] = "mlx_lm" THEN 1 ELSE 0]
               /\ pc' = "c_new"
               /\ UNCHANGED connErr
  /\ UNCHANGED <<mode, port, procs, installed, modelPath, i, slept, snapshot, child, foreignKilled, probed,
                 running0, deferStop, chvars>>

\* NewServerManager(selectedModelServer, selectedLLM) and the IsAvailable()
\* check; for ollama the manager is nil and the call on it panics
connectNewManager ==
  /\ mode = "connect" /\ pc = "c_new"
  /\ IF ret.val = 0 THEN /\ connErr' = "panic"
                         /\ pc' = "c_done"
     ELSE IF ~IsAvailable THEN ConnectReturn("Unavailable")
     ELSE /\ pc' = "c_isRunning"
          /\ UNCHANGED connErr
  /\ UNCHANGED <<mode, hvars, found, running0, deferStop, chvars>>

\* running, _ := modelServerManager.IsRunning()
\* variant: Start is called whatever the running check says
connectIsRunningIgnored ==
  /\ mode = "connect" /\ pc = "c_isRunning"
  /\ running0' = IsRunning(procs).running
  /\ pc' = "c_start"
  /\ UNCHANGED <<mode, hvars, found, deferStop, connErr, chvars>>
connectIsRunning ==
  /\ mode = "connect" /\ pc = "c_isRunning"
  /\ running0' = IsRunning(procs).running
  /\ pc' = IF running0' THEN "c_getPort" ELSE "c_start"
  /\ UNCHANGED <<mode, hvars, found, deferStop, connErr, chvars>>

ConnStartFail == mode = "connect" /\ StartFail("c_start", "c_started")
ConnStartLaunch == mode = "connect" /\ StartLaunch("c_start")
ConnStartPollAgain == mode = "connect" /\ StartPollAgain
ConnStartPollReady == mode = "connect" /\ StartPollReady("c_started")
ConnStartGiveUp == mode = "connect" /\ StartGiveUp("c_started")

\* if err != nil { return err }; defer modelServerManager.Stop()
\* (cmd, local to Start, is gone)
connectStarted ==
  /\ mode = "connect" /\ pc = "c_started"
  /\ IF ret.err # "nil"
       THEN /\ ConnectReturn(ret.err)
            /\ UNCHANGED deferStop
       ELSE /\ deferStop' = TRUE
            /\ pc' = "c_getPort"
            /\ UNCHANGED connErr
  /\ child' = 0
  /\ slept' = 0
  /\ UNCHANGED <<mode, snapshot, port, procs, installed, modelPath, i, ret, foreignKilled, probed,
                 found, running0, chvars>>

ConnGetPort == mode = "connect" /\ GetPort("c_getPort", "c_gotPort")

\* if err != nil { return err }; client.NewClient(..., port, reader)
\* variant: the client is built for the default port
connectNewClientDefaultPort ==
  /\ mode = "connect" /\ pc = "c_gotPort"
  /\ IF ret.err # "nil"
       THEN /\ ConnectReturn(ret.err)
            /\ UNCHANGED clientPort
       ELSE /\ clientPort' = DefaultPort
            /\ pc' = "ch_options"
            /\ UNCHANGED connErr
  /\ UNCHANGED <<mode, hvars, found, running0, deferStop, chatOptions, Messages, turns, requests, chatErr,
                 lineRead, sent, resp, displayed>>
connectNewClient ==
  /\ mode = "connect" /\ pc = "c_gotPort"
  /\ IF ret.err # "nil"
       THEN /\ ConnectReturn(ret.err)
            /\ UNCHANGED clientPort
       ELSE /\ clientPort' = ret.val
            /\ pc' = "ch_options"
            /\ UNCHANGED connErr
  /\ UNCHANGED <<mode, hvars, found, running0, deferStop, chatOptions, Messages, turns, requests, chatErr,
                 lineRead, sent, resp, displayed>>

\* err = modelServerClient.StartChat(); return err (nil after /exit); a panic
\* inside the chat loop unwinds through connectHandler
connectChatDone ==
  /\ mode = "connect" /\ pc = "c_chatDone"
  /\ ConnectReturn(chatErr.kind)
  /\ Messages' = <<>>
  /\ chatOptions' = NoOptions
  /\ turns' = 0
  /\ lineRead' = NoInput
  /\ sent' = <<>>
  /\ resp' = NoResponse
  /\ displayed' = <<>>
  /\ UNCHANGED <<mode, hvars, found, running0, deferStop, clientPort, requests, chatErr>>

\* connectHandler returns: the deferred Stop() runs, its result is dropped
connectDeferredStop ==
  /\ mode = "connect" /\ deferStop
  /\ Stop("c_return", "c_done")

connectDone ==
  /\ mode = "connect" /\ pc = "c_return" /\ ~deferStop
  /\ pc' = "c_done"
  /\ UNCHANGED <<mode, hvars, cvars, chvars>>

\* golms list
\* variant: an empty discovery is reported on the terminal only
listHandlerPrintsOnly ==
  /\ mode = "list" /\ pc = "l_begin"
  /\ \E ollamaBin \in BOOLEAN, llms \in {"ReadDirFailed", "NoDirs", "NoSubdir", "NoLLMs", "ok"} :
       LET list == ListAllModelServers(ollamaBin) IN
       /\ found' = [servers |-> list, llms |-> llms]
       /\ connErr' = IF llms = "ReadDirFailed" THEN "ReadDirFailed" ELSE "nil"
  /\ pc' = "l_return"
  /\ UNCHANGED <<mode, hvars, running0, deferStop, chvars>>
\* ListAllLLMs() first, then ListAllModelServers(); an error or an empty
\* result of either ends the handler with an error
listHandler ==
  /\ mode = "list" /\ pc = "l_begin"
  /\ \E ollamaBin \in BOOLEAN, llms \in {"ReadDirFailed", "NoDirs", "NoSubdir", "NoLLMs", "ok"} :
       LET list == ListAllModelServers(ollamaBin) IN
       /\ found' = [servers |-> list, llms |-> llms]
       /\ connErr' = IF llms = "ReadDirFailed" THEN "ReadDirFailed"
                     ELSE IF llms = "NoDirs" THEN "NoDirs"
                     ELSE IF list = <<>> THEN "NoModelServers"
                     ELSE "nil"
  /\ pc' = "l_return"
  /\ UNCHANGED <<mode, hvars, running0, deferStop, chvars>>

\* the command line runs one of the two handlers
InitConnect ==
  /\ \/ mode = "connect" /\ pc = "c_begin"
     \/ mode = "list" /\ pc = "l_begin"
  /\ InitCommon

NextConnect ==
  \/ ExtSpawn
  \/ ProcListen
  \/ ProcExit
  \/ listHandler
  \/ connectSelect
  \/ connectNewManager
  \/ connectIsRunning
  \/ ConnStartFail
  \/ ConnStartLaunch
  \/ ConnStartPollAgain
  \/ ConnStartPollReady
  \/ ConnStartGiveUp
  \/ connectStarted
  \/ ConnGetPort
  \/ connectNewClient
  \/ setChatOptions
  \/ addUserMessage
  \/ sendChatReq
  \/ connectChatDone
  \/ connectDeferredStop
  \/ connectDone

SpecConnect == InitConnect /\ [][NextConnect]_vars

(* ------------------ specification: a chat session --------------------- *)
InitChat ==
  /\ mode = "chat"
  /\ pc = "ch_options"
  /\ InitCommon
  /\ installed /\ modelPath

NextChat ==
  \/ setChatOptions
  \/ addUserMessage
  \/ sendChatReq

SpecChat == InitChat /\ [][NextChat]_vars

(* ------------------ properties of the handle's API --------------------- *)
\* the state in which the caller of the bare API sees Start's result
StartReturned == mode = "api" /\ pc = "returned" /\ ret.op = "Start"

\* Start returned after the wait loop used up its whole poll budget without
\* one successful poll
StartGaveUp == StartReturned /\ ret.val = PollBudget /\ ~probed

StopReturned == mode = "api" /\ pc = "returned" /\ ret.op = "Stop"

\* a step in which the caller of the bare API calls Stop and gets its result
StopStep == mode = "api" /\ pc = "idle" /\ pc' = "returned" /\ ret'.op = "Stop"

\* C1: when Start returns nil, IsRunning() called next returns true, GetPort()
\* called next succeeds, and the backend is reachable.
C1_StartSuccessMeansRunning ==
  (StartReturned /\ ret.err = "nil") =>
     /\ IsRunning(procs).running
     /\ getPortHelper(procs, port).err = "nil"
     /\ PollReady(procs)

\* C2: when no poll of the budget (30 polls) succeeded after the launch,
\* Start returns a timeout error.
C2_TimeoutIsAnError == StartGaveUp => ret.err = "Timeout"

\* C3: when Start gives up waiting, the process it launched is not running
\* any more when Start returns.
C3_NoOrphanAfterTimeout ==
  StartGaveUp => ~(child # 0 /\ Up(procs, child) /\ procs[child].own)

\* C4: on a machine where IsAvailable() is false every Start() fails, no
\* process launched by the program exists and no port is recorded
\* (IsAvailable does not change during a run).
C4_NotInstalledStartFails ==
  ~IsAvailable =>
     /\ (ret.op = "Start" => ret.err # "nil")
     /\ pc # "polling"
     /\ \A p \in PIDs : ~procs[p].own
     /\ port = 0

\* C7: Stop() called while IsRunning() is false returns NotRunning, signals
\* no process and leaves the recorded port as it was.
C7_StopWhenNotRunning ==
  [][(StopStep /\ ~IsRunning(procs).running) =>
       /\ ret'.err = "NotRunning"
       /\ port' = port
       /\ procs' = procs
       /\ foreignKilled' = foreignKilled]_vars

C7_Witness == StopReturned /\ ret.err = "NotRunning" /\ port = DefaultPort

\* C8: after a Stop() that returned nil, the Stop() called next returns
\* NotRunning and kills nothing, i.e. the first Stop leaves no process with the
\* backend signature for the next one to find.
C8_StopTwiceIsNotRunning ==
  (StopReturned /\ ret.err = "nil") => ~IsRunning(procs).running

\* C9: between operations, port # 0 implies that a readiness poll has
\* succeeded since the port was recorded.
C9_PortImpliesProbed ==
  (mode = "api" /\ pc \in {"idle", "returned"}) => (port # 0 => probed)

(* ----------------------- properties of connect ------------------------ *)
ConnectEnded == mode = "connect" /\ pc = "c_done"

\* C5: when connect has returned, no process that this invocation launched
\* is still running without having been sent kill -9.
C5_LaunchedIsStoppedAtExit ==
  ConnectEnded => \A p \in PIDs : ~(Up(procs, p) /\ procs[p].own)

\* C6: connect never sends a termination signal to a process that was
\* started outside this program.
C6_ForeignNeverKilled == mode = "connect" => ~foreignKilled

(* -------------------- properties of a chat session --------------------- *)
Alternates(msgs) ==
  \A k \in 1..Len(msgs) :
     msgs[k].Role = IF k % 2 = 1 THEN "user" ELSE "assistant"

\* C10: whenever N turns have completed and the driver is about to read the
\* next line (or has ended the session), the transcript holds exactly 2N
\* entries with roles user, assistant, user, assistant, ...
C10_TranscriptAlternates ==
  (mode = "chat" /\ pc \in {"ch_read", "ch_done"}) =>
     /\ Len(Messages) = 2 * turns \/ (pc = "ch_done" /\ Len(Messages) = 2 * turns + 1)
     /\ Alternates(SubSeq(Messages, 1, 2 * turns))

IsPrefix(a, b) == Len(a) <= Len(b) /\ SubSeq(b, 1, Len(a)) = a

\* C11: the transcript is append-only.  In every step of StartChat the
\* transcript before the step is a prefix of the transcript after it, and
\* the step adds at most one entry.
C11_TranscriptAppendOnly ==
  [][mode = "chat" =>
       /\ IsPrefix(Messages, Messages')
       /\ Len(Messages') <= Len(Messages) + 1]_vars

\* a user turn has been appended behind a complete earlier exchange
C11_Witness ==
  /\ mode = "chat"
  /\ pc = "ch_send"
  /\ Len(Messages) = 3
  /\ Messages[3].Role = "user"

\* a step of sendChatReq that issued its request
RequestStep == mode = "chat" /\ pc = "ch_send" /\ Len(sent') = Len(sent) + 1

SessionOver == mode = "chat" /\ pc = "ch_done"

\* C12: when the backend answers a request with a status other than 200,
\* carrying status s and body b, the session ends with an API error that
\* carries s and b, no entry is appended to the transcript, and the request
\* is not repeated.
C12_ApiErrorCarriesStatusAndBody ==
  [][/\ (RequestStep /\ resp'.status # 0 /\ resp'.status # StatusOK) =>
          /\ chatErr' = ChatError("APIError", resp'.status, resp'.body)
          /\ Messages' = Messages
          /\ requests' = requests + 1
          /\ pc' = "ch_done"
     /\ (SessionOver /\ chatErr.kind = "APIError") => sent' = sent]_vars

\* a second turn was answered with status 500 and a non-empty body
C12_Witness ==
  /\ SessionOver
  /\ turns = 1
  /\ resp.status = 500
  /\ chatErr = ChatError("APIError", 500, "overloaded")

TransportFailed(r) == r.status = 0 \/ (r.status = StatusOK /\ r.body = "garbage")

\* C13: a request that fails in transport (no connection, or a 200 response
\* whose body does not decode) is fatal: StartChat returns that error, the
\* transcript gets no entry, no request is issued after the failed one, and
\* there is never more than one request per user turn.
C13_TransportFailureIsFatal ==
  [][/\ (RequestStep /\ TransportFailed(resp')) =>
          /\ chatErr' = Failure(IF resp'.status = 0 THEN "SendFailed" ELSE "DecodeFailed")
          /\ pc' = "ch_done"
          /\ Messages' = Messages
          /\ requests' = requests + 1
     /\ chatErr.kind \in {"SendFailed", "DecodeFailed"} => sent' = sent
     /\ mode = "chat" => Len(sent') <= (Len(Messages') + 1) \div 2]_vars

\* the request of a second turn got a body that does not decode
C13_Witness ==
  /\ SessionOver
  /\ chatErr = Failure("DecodeFailed")
  /\ Len(sent) = 2
  /\ Len(Messages) = 3

TurnFailures == {"SendFailed", "APIError", "DecodeFailed"}

TurnFailed == SessionOver /\ chatErr.kind \in TurnFailures

\* C14 (as stated): when a turn fails, the transcript at the end of the
\* session holds complete exchanges only: no user turn is left without the
\* assistant reply that follows it.
C14_NoPartialExchange == TurnFailed => Len(Messages) = 2 * turns

\* C14 (amended): when a turn fails, the transcript at the end of the session
\* is the complete exchanges of the earlier turns followed by exactly one
\* entry, the user turn of the failed turn; nothing of a reply is appended
\* for the failed turn.
C14_FailedTurnKeepsItsUserTurn ==
  TurnFailed =>
    /\ Len(Messages) = 2 * turns + 1
    /\ \A j \in 1..turns :
         /\ Messages[2 * j - 1].Role = "user"
         /\ Messages[2 * j] \in Replies
    /\ Messages[Len(Messages)].Role = "user"
    /\ Messages[Len(Messages)].ToolCalls = "nil"

\* a turn failed behind one complete exchange
C14_Witness ==
  /\ TurnFailed
  /\ turns = 1
  /\ Len(Messages) = 3

\* the line that was read is the exit command
ExitRead(l) == l.ok /\ TrimSpace(l.line) = ExitToken

\* C15: whenever the line read is the exit command /exit, at any point of
\* the session, StartChat returns nil in that step, appends no turn and
\* issues no request; nothing is sent or appended afterwards.
C15_ExitEndsSession ==
  [][/\ (mode = "chat" /\ pc = "ch_read" /\ ExitRead(lineRead')) =>
          /\ chatErr' = Failure("nil")
          /\ pc' = "ch_done"
          /\ Messages' = Messages
          /\ sent' = sent
     /\ (SessionOver /\ ExitRead(lineRead)) =>
          /\ Messages' = Messages
          /\ sent' = sent]_vars

\* /exit was read after one complete exchange
C15_Witness ==
  /\ SessionOver
  /\ ExitRead(lineRead)
  /\ chatErr = Failure("nil")
  /\ turns = 1
  /\ Len(sent) = 1

\* user turns appended so far: one per exchange, and one more when the
\* transcript ends with a user turn
UserTurns == (Len(Messages) + 1) \div 2

\* C16: each user turn causes exactly one request, and the k-th request
\* carries the transcript of that moment, k-1 (user, assistant) pairs and
\* then the new user turn, 2k-1 messages, together with the temperature,
\* max-tokens and stream values chosen at the start of the session.
C16_OneRequestPerTurnWithFullTranscript ==
  (mode = "chat" /\ pc \in {"ch_read", "ch_done"}) =>
    /\ Len(sent) = UserTurns
    /\ \A k \in 1..Len(sent) :
         /\ Len(sent[k].Messages) = 2 * k - 1
         /\ sent[k].Messages = SubSeq(Messages, 1, 2 * k - 1)
         /\ Alternates(sent[k].Messages)
         /\ sent[k].Temperature = chatOptions.Temperature
         /\ sent[k].MaxTokens = chatOptions.MaxTokens
         /\ sent[k].Stream = chatOptions.Stream

ThinkingReply == <<"<think>", "hi", "</think>", "hi">>

\* C17: the entry appended for a reply is choices[0].message exactly as it
\* was decoded, think tags included; the text with the tags removed is what
\* is displayed and nothing else, and the next request replays the message
\* as decoded.
C17_ReplyStoredAsDecoded ==
  [][/\ (RequestStep /\ turns' = turns + 1) =>
          /\ Messages' = Append(Messages, resp'.msg)
          /\ displayed' = RemoveThinkTags(resp'.msg.Content)
     /\ (RequestStep /\ turns >= 1) =>
          sent'[Len(sent')].Messages[2 * turns] = resp.msg]_vars

\* a reply with a think section was displayed without it and replayed with it
C17_Witness ==
  /\ mode = "chat"
  /\ Len(sent) = 2
  /\ turns = 1
  /\ sent[2].Messages[2].Content = ThinkingReply
  /\ displayed = <<"hi">>

(* ------------------- properties of the port query ------------------- *)

GetPortReturned == mode = "api" /\ pc = "returned" /\ ret.op = "GetPort"

\* C18: GetPort fails with NotRunning whenever the backend is not running,
\* also when an earlier Start recorded a port; it never returns a port for a
\* backend that is not running.
C18_GetPortNeedsRunning ==
  GetPortReturned =>
    /\ ~IsRunning(procs).running => (ret.err = "NotRunning" /\ ret.val = 0)
    /\ ret.err = "nil" => IsRunning(procs).running

\* GetPort failed although a port is recorded
C18_Witness ==
  /\ GetPortReturned
  /\ port = DefaultPort
  /\ ~IsRunning(procs).running
  /\ ret.err = "NotRunning"

\* C19: with a recorded port and a running backend GetPort returns exactly
\* the recorded port and inspects no socket; the sockets of the process are
\* inspected only when the recorded port is 0.
C19_RecordedPortWithoutInspection ==
  GetPortReturned =>
    /\ (port # 0 /\ IsRunning(procs).running) =>
         (ret.err = "nil" /\ ret.val = port /\ ~ret.lsof)
    /\ ret.lsof => port = 0

\* the recorded port was returned while the running process listens elsewhere
C19_Witness ==
  /\ GetPortReturned
  /\ port = DefaultPort
  /\ ret.err = "nil"
  /\ ret.val = DefaultPort
  /\ procs[IsRunning(procs).pid].lport = DefaultPort + 1

(* ------------------- properties of the readiness wait ------------------- *)

Polling == mode = "api" /\ pc = "polling"

\* a step of Start that runs the readiness check
CheckStep == Polling /\ (i' # i \/ pc' # "polling")

\* C20 (as stated): the readiness wait invokes the check once per interval
\* starting immediately, so the first check runs before any interval has
\* elapsed: after k checks, k - 1 intervals have elapsed.
C20_FirstCheckImmediate == (Polling /\ i >= 1) => slept = i - 1

\* C20 (amended): the readiness wait invokes the check once per interval,
\* each check after its interval has elapsed, the first one included; it
\* stops at the first check that is true, and otherwise when the check has
\* run PollBudget times.
C20_CheckAfterEachInterval ==
  [][/\ Polling => (slept = i /\ i < PollBudget)
     /\ CheckStep =>
          /\ slept' = slept + 1
          /\ PollReady(procs) => (pc' = "returned" /\ ret'.val = i + 1 /\ probed')
          /\ (~PollReady(procs) /\ i + 1 < PollBudget) => (pc' = "polling" /\ i' = i + 1)
          /\ (~PollReady(procs) /\ i + 1 >= PollBudget) => (pc' = "returned" /\ ~probed')]_vars

\* the second check was the first true one, two intervals after the launch
C20_Witness ==
  /\ StartReturned
  /\ probed
  /\ ret.val = 2
  /\ slept = 2

(* ------------------- properties of Start ------------------- *)

\* the first step of a Start call made through the bare API
StartCallStep ==
  /\ mode = "api" /\ pc = "idle"
  /\ pc' = "polling" \/ (pc' = "returned" /\ ret'.op = "Start")

\* C21: when the model path does not exist, Start fails at once with an
\* error: no process is launched, no readiness poll is made, and the
\* recorded port keeps the value it had before the call.
C21_MissingModelPathFailsAtOnce ==
  [][(StartCallStep /\ ~modelPath) =>
       /\ pc' = "returned"
       /\ ret'.err # "nil"
       /\ procs' = procs
       /\ slept' = slept
       /\ port' = port]_vars

\* Start failed on the missing model path with a port still recorded
C21_Witness ==
  /\ StartReturned
  /\ ret.err = "ModelPathMissing"
  /\ port = DefaultPort

(* ------------------- properties of connect, continued ------------------- *)

\* the first step of the Start call of connectHandler
ConnStartCallStep ==
  /\ mode = "connect" /\ pc = "c_start"
  /\ pc' \in {"polling", "c_started"}

\* C22: connect starts the model server only if it is not already running.
\* Start is called only when the IsRunning check just before it returned
\* false, at most once in a run (no operation of the handle has returned
\* before it), and a run that detected a running backend launches no process.
C22_StartOnlyIfNotRunning ==
  [][/\ ConnStartCallStep => (~running0 /\ ret.op = "Select" /\ ~deferStop)
     /\ (mode = "connect" /\ running0) =>
          (pc' # "c_start" /\ \A p \in PIDs : ~procs'[p].own)]_vars

\* a whole run on a backend that was found running
C22_Witness ==
  /\ ConnectEnded
  /\ running0
  /\ connErr = "nil"
  /\ ret.op = "GetPort"

(* ------------------- properties of the chat options ------------------- *)

\* temperature t lies in [0.0, 2.0]
TemperatureInRange(t) ==
  LET f == ParseFloat(t) IN ~f.err /\ ~f.nan /\ 0 <= f.v /\ f.v <= 200

\* C23: whatever the operator types at the option prompts (nothing, text
\* that is not a number, a number out of range, NaN), the parameters of the
\* session after setChatOptions satisfy temperature in [0.0, 2.0] and
\* max-tokens >= 1.
C23_ChatOptionsInRange ==
  (mode = "chat" /\ pc # "ch_options") =>
    /\ TemperatureInRange(chatOptions.Temperature)
    /\ chatOptions.MaxTokens >= 1

(* ------------------- properties of the wire format ------------------- *)

\* C24: round trip of a conversation turn.  Every Message of the transcript,
\* as it was serialized into a request, decodes from that JSON to a value
\* equal to the original.
C24_MessageRoundTrip ==
  mode = "chat" =>
    \A k \in 1..Len(sent) :
      \A j \in 1..Len(sent[k].Messages) :
        UnmarshalMessage(sent[k].Wire[j]) = sent[k].Messages[j]

\* connectHandler returned nil: the process exits with status 0
ReturnsNil == mode = "connect" /\ pc \in {"c_return", "c_done"} /\ connErr = "nil"

\* C25: connect never exits zero after a lifecycle or chat operation failed:
\* not after a chat error, not after a readiness wait that gave up, and not
\* after the final Stop failed.
C25_NoZeroExitAfterFailure ==
  ReturnsNil =>
    /\ chatErr.kind = "nil"
    /\ (pc = "c_return" /\ deferStop) => probed
    /\ (pc = "c_done" /\ ret.op = "Stop") => ret.err = "nil"

\* the chat client exists and StartChat has not yet returned to connectHandler
InConnectChat == mode = "connect" /\ pc \in {"ch_options", "ch_read", "ch_send", "c_chatDone"}

\* C26: ordering in connect.  A chat request is issued only inside the chat
\* session, and the session exists only after IsAvailable returned true, the
\* backend was found running or Start returned nil, and GetPort succeeded;
\* the client holds exactly the port GetPort returned; Stop runs only after
\* the chat loop has ended.
C26_ConnectOrdering ==
  [][/\ (mode = "connect" /\ Len(sent') > Len(sent)) => InConnectChat
     /\ InConnectChat =>
          /\ IsAvailable
          /\ running0 \/ deferStop
          /\ ret.op = "GetPort" /\ ret.err = "nil"
          /\ clientPort = ret.val
     /\ (mode = "connect" /\ ret'.op = "Stop" /\ ret.op # "Stop") =>
          (deferStop /\ pc = "c_return" /\ connErr # "none")]_vars

\* a request went to a backend found running on a port read from its sockets
C26_Witness ==
  /\ InConnectChat
  /\ Len(sent) = 1
  /\ running0
  /\ ret.lsof
  /\ clientPort = DefaultPort + 1

(* ------------------- properties of IsRunning ------------------- *)

IsRunningReturned == mode = "api" /\ pc = "returned" /\ ret.op = "IsRunning"

\* positions of the listing whose command line shows the signature
Hits(sn) == {k \in 1..Len(sn.listing) : sn.cmd[sn.listing[k]] = "sig"}

\* C27: IsRunning is first-found over the process snapshot.  It returns the
\* pid of the first listed process whose command line contains
\* mlx_lm.server, and -1 (not running) exactly when the listing failed or no
\* listed process matches; a listed process that has terminated before it
\* is inspected is skipped, without an error.
C27_IsRunningFirstFound ==
  IsRunningReturned =>
    /\ ret.err = "nil"
    /\ ret.val = IF ~snapshot.ok \/ Hits(snapshot) = {}
                   THEN -1
                   ELSE snapshot.listing[Min(Hits(snapshot))]

\* two processes were listed, the first had terminated, the second matched
C27_Witness ==
  /\ IsRunningReturned
  /\ snapshot.listing = <<1, 2>>
  /\ snapshot.cmd[1] = "gone"
  /\ ret.val = 2

\* two listed processes matched and the first one was reported
C27_WitnessFirst ==
  /\ IsRunningReturned
  /\ Hits(snapshot) = {1, 2}
  /\ ret.val = 1

(* ------------------- properties of Stop ------------------- *)

\* C28: a Stop call signals at most one process, and only the process whose
\* pid its own IsRunning check returned in that call; every other process
\* is left as it was, and without a match nothing is signaled.
C28_StopSignalsOnlyDiscovered ==
  [][StopStep =>
       LET r == IsRunning(procs) IN
       /\ \A p \in PIDs : p # r.pid => procs'[p] = procs[p]
       /\ ~r.running => procs' = procs
       /\ r.running => ret'.val = r.pid]_vars

\* Stop killed the first of two backend processes and left the second
C28_Witness ==
  /\ StopReturned
  /\ ret.err = "nil"
  /\ ret.val = 1
  /\ ~Up(procs, 1)
  /\ Up(procs, 2) /\ procs[2].sig

\* C29: Start always terminates.  Once the process is launched the wait
\* makes at most PollBudget polls and then Start returns, whatever the
\* backend does meanwhile.
C29_StartTerminates ==
  Polling ~> (StartReturned /\ ret.val <= PollBudget /\ slept <= PollBudget)

\* Start returned after the last poll of a backend that never listened
C29_Witness ==
  /\ StartGaveUp
  /\ slept = PollBudget
  /\ child # 0 /\ Up(procs, child) /\ procs[child].lport = 0

\* the poll of this step found the server listening: Start returns early
EarlySuccessStep == Polling /\ pc' = "returned" /\ probed'

\* C30: Start reports the server as listening only if, in one and the same
\* poll, a process with the signature was found and the socket inspection of
\* that very pid showed an open socket; a process without a socket never
\* counts as ready.
C30_ReadyNeedsProcessAndSocket ==
  [][/\ EarlySuccessStep =>
          /\ Matching(procs) # {}
          /\ procs[Min(Matching(procs))].lport # 0
     /\ (Polling /\ \A p \in Matching(procs) : procs[p].lport = 0) => ~probed']_vars

\* the third poll was the first to find the launched process listening
C30_Witness ==
  /\ StartReturned
  /\ probed
  /\ ret.val = 3
  /\ child # 0 /\ procs[child].lport = DefaultPort

(* ------------------- properties of the chat loop ------------------- *)

\* a step in which StartChat returns to its caller
ChatReturnStep == mode = "chat" /\ pc # "ch_done" /\ pc' = "ch_done" /\ chatErr'.kind # "panic"

\* C31: after every successful turn the driver goes back to reading the next
\* line.  StartChat returns only when the exit command was read (success),
\* when reading failed, or when the request of the turn failed; it never
\* returns in the step that completes a turn.
C31_LoopReturnsToReading ==
  [][/\ (RequestStep /\ turns' = turns + 1) =>
          (pc' = "ch_read" /\ chatErr' = NoError /\ displayed' = RemoveThinkTags(resp'.msg.Content))
     /\ ChatReturnStep =>
          \/ pc = "ch_read" /\ ExitRead(lineRead') /\ chatErr' = Failure("nil")
          \/ pc = "ch_read" /\ ~lineRead'.ok /\ chatErr' = Failure("ReadFailed")
          \/ /\ pc = "ch_send" /\ turns' = turns /\ Messages' = Messages
             /\ chatErr'.kind \in {"MarshalFailed", "SendFailed", "APIError", "DecodeFailed"}]_vars

\* the driver is reading again after its second complete turn
C31_Witness ==
  /\ mode = "chat"
  /\ pc = "ch_read"
  /\ turns = 2
  /\ Len(Messages) = 4
  /\ chatErr = NoError

(* ----------------------- properties of discovery ---------------------- *)
\* what the handler that ran had to discover
NoBackendInstalled == found # NotDiscovered /\ found.servers = <<>>
NoModelDirectories == found # NotDiscovered /\ found.llms = "NoDirs"
EnumerationFailed == found # NotDiscovered /\ found.llms = "ReadDirFailed"

\* the handler has returned an error, and has neither launched a backend
\* nor opened a chat
HardError ==
  /\ pc \in {"l_return", "c_return", "c_done"}
  /\ connErr \notin {"none", "nil", "panic"}
  /\ child = 0 /\ port = 0 /\ ~deferStop
  /\ clientPort = 0 /\ requests = 0 /\ Messages = <<>>

\* C32: when no backend is installed, when no model directory is present,
\* and when the enumeration of the model directories fails, list and connect
\* return an error; connect then has started no backend and opened no chat.
C32_EmptyDiscoveryIsAnError ==
  (NoBackendInstalled \/ NoModelDirectories \/ EnumerationFailed) => HardError

\* list has found model directories but no backend, and failed
C32_Witness ==
  /\ mode = "list"
  /\ pc = "l_return"
  /\ found = [servers |-> <<>>, llms |-> "ok"]
  /\ connErr = "NoModelServers"

\* connect has found a backend but no model directory, and failed
C32_WitnessConnect ==
  /\ mode = "connect"
  /\ pc = "c_done"
  /\ found = [servers |-> <<"mlx_lm">>, llms |-> "NoDirs"]
  /\ connErr = "NoDirs"

(* ------------------- properties of Start and its port ------------------ *)
\* C33: when Start reports readiness, the process whose socket it saw is the
\* one it launched; it never reports readiness on the evidence of another
\* process while its own child is gone or not listening.
C33_ReadinessIsOfTheChild ==
  [][EarlySuccessStep =>
       /\ child # 0
       /\ IsRunning(procs).pid = child
       /\ LsofHasOutput(procs, child)]_vars

(* ----------------------- properties of connect ------------------------ *)
\* C34: for every backend connect can offer, NewServerManager returns a
\* manager that can be used, so the call of IsAvailable() that follows the
\* selection, and every later call, is on a value that is not nil.
C34_ManagerNeverNil ==
  [][(mode = "connect" /\ pc = "c_new") => (ret.val # 0 /\ connErr' # "panic")]_vars

\* a step in which a call of Start or Stop on the bare API returns an error
FailedCallStep ==
  /\ mode = "api" /\ pc = "idle" /\ pc' = "returned"
  /\ ret'.op \in {"Start", "Stop"}
  /\ ret'.err # "nil"

\* C35: whenever Start or Stop returns an error, the recorded port is what it
\* was before the call: for Start on a missing model path, a log file that
\* cannot be created and a launch that fails, for Stop on NotRunning and on a
\* kill that fails.
C35_FailedCallKeepsPort ==
  [][FailedCallStep => port' = port]_vars

\* a step in which NewServerManager builds a fresh handle
NewStep == mode = "api" /\ pc = "idle" /\ pc' = "returned" /\ ret'.op = "New"

\* C36: the recorded port is 0 or 8080 at all times: 0 in a fresh handle, set
\* by Start only and to 8080 only, reset to 0 only by a Stop that succeeds,
\* and never changed by IsRunning.
C36_PortZeroOrDefault ==
  /\ [](port \in {0, DefaultPort})
  /\ [][/\ port' # port =>
             \/ StartCallStep /\ port = 0 /\ port' = DefaultPort
             \/ StopStep /\ ret'.err = "nil" /\ port = DefaultPort /\ port' = 0
             \/ NewStep /\ port = DefaultPort /\ port' = 0
        /\ NewStep => port' = 0
        /\ (mode = "api" /\ pc = "idle" /\ pc' = "polling") => port' = DefaultPort
        /\ (StopStep /\ ret'.err = "nil") => port' = 0
        /\ (mode = "api" /\ pc = "idle" /\ pc' = "returned"
              /\ ret'.op \in {"IsRunning", "IsAvailable", "GetPort"}) => port' = port]_vars

\* Start has returned with the port recorded
C36_Witness ==
  /\ StartReturned
  /\ ret.err = "nil"
  /\ port = DefaultPort

\* IsRunning has returned on a handle whose port is recorded
C36_WitnessIsRunning ==
  /\ IsRunningReturned
  /\ ret.val = -1
  /\ port = DefaultPort

(* ---------------------- properties of a chat turn --------------------- *)
\* the request of this step is answered with status 200 and a body that
\* decodes to a response without choices
EmptyChoicesStep ==
  /\ RequestStep
  /\ resp'.status = StatusOK /\ resp'.body = "json" /\ resp'.choices = 0

\* C37: a 200 reply whose list of choices is empty is a failed turn:
\* StartChat returns an error and appends nothing to the transcript; the
\* first choice of an empty list is never read.
C37_EmptyChoicesFailTheTurn ==
  [][EmptyChoicesStep =>
       /\ pc' = "ch_done"
       /\ chatErr'.kind \notin {"nil", "panic"}
       /\ Messages' = Messages
       /\ turns' = turns]_vars

\* a step of addUserMessage, and one of sendChatReq
ReadStep == mode = "chat" /\ pc = "ch_read" /\ pc' # "ch_read"
SendStep == mode = "chat" /\ pc = "ch_send" /\ pc' # "ch_send"

\* C38: when reading the line fails, StartChat returns an error, appends no
\* user turn and issues no request.  Every line that was read and is not
\* /exit after trimming, the empty line included, appends exactly one user
\* turn whose content is the trimmed line, and exactly one request follows.
C38_ReadFailureAndOneRequestPerLine ==
  [][/\ (ReadStep /\ ~lineRead'.ok) =>
          /\ pc' = "ch_done"
          /\ chatErr' = Failure("ReadFailed")
          /\ Messages' = Messages /\ sent' = sent /\ requests' = requests
     /\ (ReadStep /\ lineRead'.ok /\ ~ExitRead(lineRead')) =>
          /\ Messages' = Append(Messages, Message("user", TrimSpace(lineRead'.line), "nil"))
          /\ sent' = sent /\ requests' = requests
          /\ pc' = "ch_send"
     /\ SendStep =>
          /\ Len(sent') = Len(sent) + 1 /\ requests' = requests + 1
          /\ sent'[Len(sent')].Messages = Messages]_vars

====
